---- MODULE Spec2Model ----
(***************************************************************************)
(* The simulation requirements tree runtime of rigelcore.                  *)
(*                                                                         *)
(* A requirements tree is an arena of nodes (node 1 is the                 *)
(* SimulationRequirementsManager).  Every handler of the source is an      *)
(* operator from a program state record to a program state record; the     *)
(* synchronous call chain a handler starts (send_upstream_cmd,             *)
(* send_downstream_cmd) is part of it.  A Python exception is the field    *)
(* exc: once it is set every caller on the stack returns at once, as the   *)
(* interpreter unwinds the stack.                                          *)
(***************************************************************************)
EXTENDS Integers, Sequences, FiniteSets, TLC

\* Bounds of the model: calls of Manager.connect_to_rosbridge, calls of
\* Manager.disconnect_from_rosbridge and messages delivered by the bridge.
MaxConnects == 2
MaxDisconnects == 2
MaxMessages == 4

MANAGER == 1

(***************************************************************************)
(* Tree shapes.  kind, father (0 = None), children (ordered) and finite    *)
(* (the node was constructed with a timeout other than inf).               *)
(***************************************************************************)
TreeEmpty ==
  [kind |-> <<"Manager">>, father |-> <<0>>, children |-> << <<>> >>,
   finite |-> <<FALSE>>]

TreeSimple ==
  [kind |-> <<"Manager", "Simple">>, father |-> <<0, 1>>,
   children |-> << <<2>>, <<>> >>, finite |-> <<FALSE, FALSE>>]

TreeExistence ==
  [kind |-> <<"Manager", "Existence", "Simple">>, father |-> <<0, 1, 2>>,
   children |-> << <<2>>, <<3>>, <<>> >>, finite |-> <<FALSE, FALSE, FALSE>>]

TreeExistenceTimed ==
  [kind |-> <<"Manager", "Existence", "Simple">>, father |-> <<0, 1, 2>>,
   children |-> << <<2>>, <<3>>, <<>> >>, finite |-> <<FALSE, TRUE, FALSE>>]

TreeAbsence ==
  [kind |-> <<"Manager", "Absence", "Simple">>, father |-> <<0, 1, 2>>,
   children |-> << <<2>>, <<3>>, <<>> >>, finite |-> <<FALSE, FALSE, FALSE>>]

TreeResponse ==
  [kind |-> <<"Manager", "Response", "Simple", "Simple">>,
   father |-> <<0, 1, 2, 2>>,
   children |-> << <<2>>, <<3, 4>>, <<>>, <<>> >>,
   finite |-> <<FALSE, TRUE, FALSE, FALSE>>]

TreeRequirement ==
  [kind |-> <<"Manager", "Requirement", "Simple", "Simple">>,
   father |-> <<0, 1, 2, 2>>,
   children |-> << <<2>>, <<3, 4>>, <<>>, <<>> >>,
   finite |-> <<FALSE, FALSE, FALSE, FALSE>>]

TreePrevention ==
  [kind |-> <<"Manager", "Prevention", "Simple", "Simple">>,
   father |-> <<0, 1, 2, 2>>,
   children |-> << <<2>>, <<3, 4>>, <<>>, <<>> >>,
   finite |-> <<FALSE, TRUE, FALSE, FALSE>>]

TreeDisjoint ==
  [kind |-> <<"Manager", "Existence", "Disjoint", "Simple", "Simple">>,
   father |-> <<0, 1, 2, 3, 3>>,
   children |-> << <<2>>, <<3>>, <<4, 5>>, <<>>, <<>> >>,
   finite |-> <<FALSE, FALSE, FALSE, FALSE, FALSE>>]

TreeTwo ==
  [kind |-> <<"Manager", "Existence", "Simple", "Absence", "Simple">>,
   father |-> <<0, 1, 2, 1, 4>>,
   children |-> << <<2, 4>>, <<3>>, <<>>, <<5>>, <<>> >>,
   finite |-> <<FALSE, FALSE, FALSE, FALSE, FALSE>>]

Trees ==
  {TreeEmpty, TreeSimple, TreeExistence, TreeExistenceTimed, TreeAbsence,
   TreeResponse, TreeRequirement, TreePrevention, TreeDisjoint, TreeTwo}

VARIABLES
  tree,         \* the requirements tree (fixed after construction)
  satisfied,    \* node -> the node's satisfied flag
  client,       \* leaf -> the leaf holds a bridge client (__rosbridge_client)
  subs,         \* leaf -> number of active subscriptions held by the bridge
  regs,         \* leaf -> calls of register_message_handler so far
  rems,         \* leaf -> calls of remove_message_handler so far
  timer,        \* node -> the timer of a Response / Prevention node
  saved,        \* node -> a Response node has saved the connect command
  start_timer,  \* the Manager's min_timeout timer
  stop_timer,   \* the Manager's max_timeout timer
  finished,     \* Manager.finished
  lastOp,       \* the external event handled by the last step
  raised,       \* the last step's handler ended with an uncaught exception
  stopEmit,     \* the last step reached the emission of a StopSimulation
  stopRecv,     \* the last step ran Manager.handle_stop_simulation
  nStatus,      \* StatusChange commands built in the last step
  connects,     \* calls of Manager.connect_to_rosbridge so far
  disconnects,  \* calls of Manager.disconnect_from_rosbridge so far
  messages,     \* messages published so far
  lastLeaf,     \* the leaf whose topic the last step published on, 0 if none
  lastPv,       \* leaf -> predicate value of the last message on its topic
  noReturn,     \* node -> both children of a Prevention node have held at once
  predicateRaised, \* the last step called a leaf's predicate and it raised
  deepest,      \* the deepest nesting of command handlers in the last step
  overflow      \* the last step exceeded the interpreter's recursion limit

\* CallbackGenerator (callback.py): one compilation and one evaluation
VARIABLES
  operator,     \* the HplBinaryOperator handed to generate_callback
  msg,          \* the ROS message the compiled predicate is applied to
  callback,     \* what generate_callback returned (or that it raised)
  verdict       \* what the compiled predicate returned on msg (or that it raised)

\* the state of a run of the requirements tree
ProgramVars ==
  <<tree, satisfied, client, subs, regs, rems, timer, saved, start_timer,
    stop_timer, finished, lastOp, raised, stopEmit, stopRecv, nStatus,
    connects, disconnects, messages, lastLeaf, lastPv, noReturn,
    predicateRaised, deepest, overflow>>

CallbackVars == <<operator, msg, callback, verdict>>

\* SimulationRequirementsParser (parser.py): one call of parse
VARIABLES
  ast,          \* the patterns of the parsed property, in the order of iterate()
  parsed        \* what parse returned (or that it raised)

ParserVars == <<ast, parsed>>

\* DockerClient (clients/docker.py) and the Docker daemon behind it
VARIABLES
  networks,     \* name -> number of networks of that name the daemon holds
  containers,   \* name -> number of containers of that name, and their status
  wait,         \* the call of wait_for_container_status in progress
  dockerCalls,  \* calls of create_network / run_container so far
  dockerLast    \* the last call: its name, whether it called the create/run
                \* API and whether it raised DockerAPIError

DockerVars == <<networks, containers, wait, dockerCalls, dockerLast>>

\* the threads of a run: the two threading.Timer threads of the Manager and
\* the thread on which the bridge client delivers messages
VARIABLES
  pc,         \* thread -> the statement it is at
  mem,        \* the fields the threads share: the flags of the Manager and of
              \* its leaf, the subscription, the timers
  delivered   \* messages delivered so far

\* the I/O threads of the bridge client inside message_handler of one leaf
VARIABLES
  io,         \* I/O thread -> the statement it is at and its message's P(m)
  leaf        \* the leaf: its flag, the StatusChange commands it has sent,
              \* the flips of its flag, P(m) of the last call that returned

LeafVars == <<io, leaf>>

ThreadVars == <<pc, mem, delivered, LeafVars>>

\* the state outside a run of the requirements tree
OtherVars == <<CallbackVars, ParserVars, DockerVars, ThreadVars>>

vars == <<ProgramVars, OtherVars>>

Nodes == 1..Len(tree.kind)
Leaves == {n \in Nodes : tree.kind[n] = "Simple"}
Kind(n) == tree.kind[n]
Child(n, i) == tree.children[n][i]

(***************************************************************************)
(* threading.Timer: start() may be called once; cancel() is allowed at any *)
(* time, also before start(); the function runs only when the timer was    *)
(* started and not cancelled before the interval elapsed.                  *)
(***************************************************************************)
NewTimer == [started |-> FALSE, cancelled |-> FALSE, fired |-> FALSE]
Timer_cancel(t) == [t EXCEPT !.cancelled = TRUE]
Timer_pending(t) == t.started /\ ~t.cancelled /\ ~t.fired

\* The program state a handler works on.
Cur ==
  [satisfied |-> satisfied, client |-> client, subs |-> subs, regs |-> regs,
   rems |-> rems, timer |-> timer, saved |-> saved,
   start_timer |-> start_timer, stop_timer |-> stop_timer,
   finished |-> finished, exc |-> FALSE, stopEmit |-> FALSE,
   stopRecv |-> FALSE, nStatus |-> 0, depth |-> 0, deepest |-> 0,
   overflow |-> FALSE]

\* An exception is raised: the running handlers are unwound.
Raise(s) == [s EXCEPT !.exc = TRUE]

(***************************************************************************)
(* Names the source defines.  Python looks an attribute up when the        *)
(* expression is evaluated and raises AttributeError when it is missing.   *)
(***************************************************************************)
\* command.py: members of the enumeration CommandType
CommandType == {"ROSBRIDGE_CONNECT", "ROSBRIDGE_DISCONNECT", "STATUS_CHANGE"}
\* command.py: static methods of CommandBuilder
CommandBuilder ==
  {"build_rosbridge_connect_cmd", "build_rosbridge_disconnect_cmd",
   "build_status_change_cmd"}
\* requirements/node.py: methods of the base class SimulationRequirementNode
NodeMethods ==
  {"handle_upstream_command", "handle_downstream_command",
   "send_upstream_cmd", "send_downstream_cmd"}
\* requirements/simple.py, requirement.py: data attributes of the event nodes
\* (Simple leaves and Disjoint combinators) that stand under a pattern node
EventNodeAttributes ==
  {"children", "father", "satisfied", "ros_topic", "ros_message_type",
   "ros_message_callback"}
\* requirements/existence.py, requirements/requirement.py: the methods of the
\* Existence and Requirement nodes that handle a timeout
TimeoutMethods == {"handler_timeout"}

(***************************************************************************)
(* The bridge client (rigelcore.clients.ROSBridgeClient): a registry of    *)
(* message handlers.                                                       *)
(***************************************************************************)
register_message_handler(n, s) == [s EXCEPT !.subs[n] = @ + 1]

remove_message_handler(n, s) ==
  [s EXCEPT !.subs[n] = IF @ > 0 THEN @ - 1 ELSE 0]

(***************************************************************************)
(* CommandBuilder                                                          *)
(***************************************************************************)
build_status_change_cmd(s) == [s EXCEPT !.nStatus = @ + 1]

\* Called by Response and Prevention; CommandBuilder does not define it.
build_stop_simulation_cmd(s) ==
  LET s1 == [s EXCEPT !.stopEmit = TRUE] IN
  IF "build_stop_simulation_cmd" \notin CommandBuilder THEN Raise(s1) ELSE s1

(***************************************************************************)
(* SimulationRequirementNode: command plumbing.                            *)
(***************************************************************************)
\* The interpreter's limit on nested calls (sys.getrecursionlimit()), in
\* calls of handle_upstream_command / handle_downstream_command: a chain of
\* handlers that nests deeper ends with RecursionError.
RecursionLimit == 12

\* a command handler is entered / left
Enter(s) ==
  [s EXCEPT !.depth = @ + 1,
            !.deepest = IF s.depth + 1 > @ THEN s.depth + 1 ELSE @]
Leave(s) == [s EXCEPT !.depth = @ - 1]
RecursionError(s) == [Raise(s) EXCEPT !.overflow = TRUE]

RECURSIVE handle_upstream_command(_, _, _)
RECURSIVE handle_downstream_command(_, _, _)
RECURSIVE send_downstream_from(_, _, _, _)

send_upstream_cmd(n, cmd, s) ==
  IF tree.father[n] # 0 THEN handle_upstream_command(tree.father[n], cmd, s)
  ELSE s

\* the loop of send_downstream_cmd from the i-th child on
send_downstream_from(n, i, cmd, s) ==
  IF s.exc \/ i > Len(tree.children[n]) THEN s
  ELSE send_downstream_from(n, i + 1, cmd,
                            handle_downstream_command(Child(n, i), cmd, s))

send_downstream_cmd(n, cmd, s) == send_downstream_from(n, 1, cmd, s)

\* Response calls self.send_child_downstream_cmd(child, command).
send_child_downstream_cmd(c, cmd, s) ==
  IF "send_child_downstream_cmd" \notin NodeMethods THEN Raise(s)
  ELSE handle_downstream_command(c, cmd, s)

AllSatisfied(n, s) == \A i \in 1..Len(tree.children[n]) : s.satisfied[Child(n, i)]
AnySatisfied(n, s) == \E i \in 1..Len(tree.children[n]) : s.satisfied[Child(n, i)]

(***************************************************************************)
(* SimpleSimulationRequirementNode                                         *)
(***************************************************************************)
\* regs and rems count the calls the leaf makes to the bridge client.
Simple_connect_to_rosbridge(n, s) ==
  register_message_handler(n, [s EXCEPT !.client[n] = TRUE, !.regs[n] = @ + 1])

Simple_disconnect_from_rosbridge(n, s) ==
  IF ~s.client[n] THEN Raise(s)   \* self.__rosbridge_client was never set
  ELSE remove_message_handler(n, [s EXCEPT !.rems[n] = @ + 1])

Simple_handle_downstream_command(n, cmd, s) ==
  IF cmd = "ROSBRIDGE_CONNECT" THEN Simple_connect_to_rosbridge(n, s)
  ELSE IF cmd = "ROSBRIDGE_DISCONNECT" THEN Simple_disconnect_from_rosbridge(n, s)
  ELSE s

\* what ros_message_callback(message) does: returns True or False, or raises
PredicateOutcomes == {"True", "False", "raise"}

\* pv is the outcome of ros_message_callback(message); nothing catches an
\* exception of the predicate
Simple_message_handler(n, pv, s) ==
  IF pv = "raise" THEN Raise(s)
  ELSE IF (pv = "True") # s.satisfied[n]
  THEN send_upstream_cmd(n, "STATUS_CHANGE",
         build_status_change_cmd([s EXCEPT !.satisfied[n] = ~@]))
  ELSE s

(***************************************************************************)
(* DisjointSimulationRequirementNode                                       *)
(***************************************************************************)
\* variant: a conjunction of the children
Disjoint_assess_children_nodes_all(n, s) == AllSatisfied(n, s)

Disjoint_assess_children_nodes(n, s) == AnySatisfied(n, s)

Disjoint_handle_children_status_change(n, s) ==
  LET result == Disjoint_assess_children_nodes(n, s) IN
  IF result # s.satisfied[n]
  THEN send_upstream_cmd(n, "STATUS_CHANGE",
         build_status_change_cmd([s EXCEPT !.satisfied[n] = result]))
  ELSE s

Disjoint_handle_downstream_command(n, cmd, s) ==
  IF cmd = "ROSBRIDGE_CONNECT" THEN send_downstream_cmd(n, cmd, s) ELSE s

(***************************************************************************)
(* ExistenceSimulationRequirementNode                                      *)
(***************************************************************************)
Existence_assess_children_nodes(n, s) == AllSatisfied(n, s)

\* variant: the flag changes but the father is not informed
Existence_handle_children_status_change_silent(n, s) ==
  IF Existence_assess_children_nodes(n, s) # s.satisfied[n]
  THEN [s EXCEPT !.satisfied[n] = ~@]
  ELSE s

Existence_handle_children_status_change(n, s) ==
  IF Existence_assess_children_nodes(n, s) # s.satisfied[n]
  THEN send_upstream_cmd(n, "STATUS_CHANGE",
         build_status_change_cmd([s EXCEPT !.satisfied[n] = ~@]))
  ELSE s

Existence_handler_timeout(n, s) ==
  send_downstream_cmd(n, "ROSBRIDGE_DISCONNECT", s)

\* The timer is built with self.handle_timeout, a name the class does not
\* define (its method is handler_timeout): no timer is ever created.
Existence_handle_rosbridge_connection_commands(n, cmd, s) ==
  LET r == send_downstream_cmd(n, cmd, s) IN
  IF r.exc THEN r
  ELSE IF tree.finite[n]
       THEN IF "handle_timeout" \notin TimeoutMethods THEN Raise(r)
            ELSE [r EXCEPT !.timer[n] = [NewTimer EXCEPT !.started = TRUE]]
       ELSE r

Existence_handle_downstream_command(n, cmd, s) ==
  IF cmd = "ROSBRIDGE_CONNECT"
  THEN Existence_handle_rosbridge_connection_commands(n, cmd, s)
  ELSE s

(***************************************************************************)
(* AbsenceSimulationRequirementNode                                        *)
(***************************************************************************)
Absence_assess_children_nodes(n, s) == ~AnySatisfied(n, s)

Absence_handle_children_status_change(n, s) ==
  IF Absence_assess_children_nodes(n, s) # s.satisfied[n]
  THEN send_upstream_cmd(n, "STATUS_CHANGE",
         build_status_change_cmd([s EXCEPT !.satisfied[n] = ~@]))
  ELSE s

Absence_handle_downstream_command(n, cmd, s) == s

(***************************************************************************)
(* RequirementSimulationRequirementNode                                    *)
(***************************************************************************)
Requirement_assess_children_nodes(n, s) ==
  s.satisfied[Child(n, 1)] /\ s.satisfied[Child(n, 2)]

Requirement_handle_children_status_change(n, s) ==
  IF Requirement_assess_children_nodes(n, s) # s.satisfied[n]
  THEN send_upstream_cmd(n, "STATUS_CHANGE",
         build_status_change_cmd([s EXCEPT !.satisfied[n] = ~@]))
  ELSE s

Requirement_handler_timeout(n, s) ==
  send_downstream_cmd(n, "ROSBRIDGE_DISCONNECT", s)

Requirement_handle_rosbridge_connection_commands(n, cmd, s) ==
  LET r == send_downstream_cmd(n, cmd, s) IN
  IF r.exc THEN r
  ELSE IF tree.finite[n]
       THEN IF "handle_timeout" \notin TimeoutMethods THEN Raise(r)
            ELSE [r EXCEPT !.timer[n] = [NewTimer EXCEPT !.started = TRUE]]
       ELSE r

Requirement_handle_downstream_command(n, cmd, s) ==
  IF cmd = "ROSBRIDGE_CONNECT"
  THEN Requirement_handle_rosbridge_connection_commands(n, cmd, s)
  ELSE s

(***************************************************************************)
(* ResponseSimulationRequirementNode                                       *)
(***************************************************************************)
Response_assess_children_nodes(n, s) ==
  s.satisfied[Child(n, 1)] /\ s.satisfied[Child(n, 2)]

Response_handle_timeout(n, s) ==
  LET s1 == [s EXCEPT !.satisfied[n] = Response_assess_children_nodes(n, s)] IN
  IF s1.satisfied[n]
  THEN LET r == send_upstream_cmd(n, "STATUS_CHANGE", build_status_change_cmd(s1)) IN
       IF r.exc THEN r ELSE send_downstream_cmd(n, "ROSBRIDGE_DISCONNECT", r)
  ELSE LET r == build_stop_simulation_cmd(s1) IN
       IF r.exc THEN r ELSE send_upstream_cmd(n, "STOP_SIMULATON", r)

\* posterior.listening is read first; no event node defines that attribute.
Response_handle_children_status_change(n, s) ==
  LET posterior == Child(n, 2) IN
  IF "listening" \notin EventNodeAttributes THEN Raise(s)
  ELSE IF s.subs[posterior] = 0
       THEN send_child_downstream_cmd(posterior, "ROSBRIDGE_CONNECT", s)
       ELSE LET s1 == [s EXCEPT !.satisfied[n] =
                                   Response_assess_children_nodes(n, s)] IN
            IF s1.satisfied[n]
            THEN LET s2 == [s1 EXCEPT !.timer[n] = Timer_cancel(@)]
                     r == send_downstream_cmd(n, "ROSBRIDGE_DISCONNECT", s2)
                 IN  IF r.exc THEN r
                     ELSE send_upstream_cmd(n, "STATUS_CHANGE",
                                            build_status_change_cmd(r))
            ELSE s1

Response_handle_rosbridge_connection_commands(n, cmd, s) ==
  LET s1 == [s EXCEPT !.saved[n] = TRUE]
      r == send_child_downstream_cmd(Child(n, 1), cmd, s1)
  IN  IF r.exc THEN r
      ELSE IF tree.finite[n]
           THEN IF r.timer[n].started THEN Raise(r)
                ELSE [r EXCEPT !.timer[n].started = TRUE]
           ELSE r

Response_handle_rosbridge_disconnection_commands(n, cmd, s) ==
  LET s1 == [s EXCEPT !.timer[n] = Timer_cancel(@),
                      !.satisfied[n] = Response_assess_children_nodes(n, s)]
      r == IF s1.satisfied[n]
           THEN send_upstream_cmd(n, "STATUS_CHANGE", build_status_change_cmd(s1))
           ELSE s1
  IN  IF r.exc THEN r ELSE send_downstream_cmd(n, cmd, r)

Response_handle_downstream_command(n, cmd, s) ==
  IF cmd = "ROSBRIDGE_CONNECT"
  THEN Response_handle_rosbridge_connection_commands(n, cmd, s)
  ELSE IF cmd = "ROSBRIDGE_DISCONNECT"
       THEN Response_handle_rosbridge_disconnection_commands(n, cmd, s)
       ELSE s

(***************************************************************************)
(* PreventionSimulationRequirementNode                                     *)
(***************************************************************************)
\* Returns False; before that it emits StopSimulation when both children are
\* satisfied.  The result is the state, the returned value being constant.
Prevention_assess_children_nodes(n, s) ==
  IF s.satisfied[Child(n, 1)] /\ s.satisfied[Child(n, 2)]
  THEN LET r == build_stop_simulation_cmd(s) IN
       IF r.exc THEN r ELSE send_upstream_cmd(n, "STOP_SIMULATON", r)
  ELSE s

Prevention_handle_children_status_change(n, s) ==
  LET a == Prevention_assess_children_nodes(n, s) IN
  IF a.exc THEN a
  ELSE IF FALSE # a.satisfied[n]
       THEN LET s1 == [a EXCEPT !.satisfied[n] = ~@,
                                !.timer[n] = Timer_cancel(@)]
                r == send_downstream_cmd(n, "ROSBRIDGE_DISCONNECT", s1)
            IN  IF r.exc THEN r
                ELSE send_upstream_cmd(n, "STATUS_CHANGE",
                                       build_status_change_cmd(r))
       ELSE a

Prevention_handle_timeout(n, s) ==
  LET s1 == [s EXCEPT !.satisfied[n] =
                         s.satisfied[Child(n, 1)] /\ ~s.satisfied[Child(n, 2)]] IN
  IF ~s1.satisfied[n]
  THEN LET r == build_stop_simulation_cmd(s1) IN
       IF r.exc THEN r ELSE send_upstream_cmd(n, "STOP_SIMULATON", r)
  ELSE s1

Prevention_handle_rosbridge_connection_commands(n, cmd, s) ==
  LET r == send_downstream_cmd(n, cmd, s) IN
  IF r.exc THEN r
  ELSE IF tree.finite[n]
       THEN IF r.timer[n].started THEN Raise(r)
            ELSE [r EXCEPT !.timer[n].started = TRUE]
       ELSE r

Prevention_handle_rosbridge_disconnection_commands(n, cmd, s) ==
  LET s1 == [s EXCEPT !.satisfied[n] =
                         s.satisfied[Child(n, 1)] /\ ~s.satisfied[Child(n, 2)],
                      !.timer[n] = Timer_cancel(@)]
  IN  send_downstream_cmd(n, cmd, s1)

Prevention_handle_downstream_command(n, cmd, s) ==
  IF cmd = "ROSBRIDGE_CONNECT"
  THEN Prevention_handle_rosbridge_connection_commands(n, cmd, s)
  ELSE IF cmd = "ROSBRIDGE_DISCONNECT"
       THEN Prevention_handle_rosbridge_disconnection_commands(n, cmd, s)
       ELSE s

(***************************************************************************)
(* SimulationRequirementsManager                                           *)
(***************************************************************************)
\* variant: a connect starts the run anew
Manager_connect_to_rosbridge_restart(s) ==
  LET r == send_downstream_cmd(MANAGER, "ROSBRIDGE_CONNECT",
                               [s EXCEPT !.finished = FALSE]) IN
  IF r.exc THEN r
  ELSE IF r.start_timer.started THEN Raise(r)
       ELSE LET r1 == [r EXCEPT !.start_timer.started = TRUE] IN
            IF r1.stop_timer.started THEN Raise(r1)
            ELSE [r1 EXCEPT !.stop_timer.started = TRUE]

Manager_connect_to_rosbridge(s) ==
  LET r == send_downstream_cmd(MANAGER, "ROSBRIDGE_CONNECT", s) IN
  IF r.exc THEN r
  ELSE IF r.start_timer.started THEN Raise(r)
       ELSE LET r1 == [r EXCEPT !.start_timer.started = TRUE] IN
            IF r1.stop_timer.started THEN Raise(r1)
            ELSE [r1 EXCEPT !.stop_timer.started = TRUE]

\* A disconnect that also declares the simulation finished.
Manager_disconnect_from_rosbridge_finishing(s) ==
  [send_downstream_cmd(MANAGER, "ROSBRIDGE_DISCONNECT", s) EXCEPT !.finished = TRUE]

Manager_disconnect_from_rosbridge(s) ==
  send_downstream_cmd(MANAGER, "ROSBRIDGE_DISCONNECT", s)

Manager_stop_timers(s) ==
  [s EXCEPT !.start_timer = Timer_cancel(@), !.stop_timer = Timer_cancel(@)]

\* variant: finished is set before the broadcast
Manager_stop_simulation_early(s) ==
  Manager_disconnect_from_rosbridge([s EXCEPT !.finished = TRUE])

Manager_stop_simulation(s) ==
  LET r == Manager_disconnect_from_rosbridge(s) IN
  IF r.exc THEN r ELSE [r EXCEPT !.finished = TRUE]

\* variant: a conjunction over no children is vacuously true
Manager_assess_children_nodes_vacuous(s) == AllSatisfied(MANAGER, s)

Manager_assess_children_nodes(s) ==
  IF Len(tree.children[MANAGER]) > 0 THEN AllSatisfied(MANAGER, s) ELSE FALSE

\* variant: the simulation is stopped on every StatusChange that finds all
\* children satisfied, whether or not the flag changes
Manager_handle_children_status_change_always(s) ==
  LET s1 == [s EXCEPT !.satisfied[MANAGER] = Manager_assess_children_nodes(s)] IN
  IF s1.satisfied[MANAGER]
  THEN Manager_stop_simulation(Manager_stop_timers(s1))
  ELSE s1

Manager_handle_children_status_change(s) ==
  IF Manager_assess_children_nodes(s) # s.satisfied[MANAGER]
  THEN LET s1 == [s EXCEPT !.satisfied[MANAGER] = ~@] IN
       IF s1.satisfied[MANAGER]
       THEN Manager_stop_simulation(Manager_stop_timers(s1))
       ELSE s1
  ELSE s

\* variant: the min_timeout fire does not look at the children
Manager_handle_start_timeout_idle(s) == s

Manager_handle_start_timeout(s) == Manager_handle_children_status_change(s)

Manager_handle_stop_timeout(s) == Manager_stop_simulation(s)

Manager_handle_stop_simulation(s) ==
  Manager_stop_simulation(Manager_stop_timers([s EXCEPT !.stopRecv = TRUE]))

\* The second comparison reads CommandType.STOP_SIMULATON.
Manager_handle_upstream_command(cmd, s) ==
  IF cmd = "STATUS_CHANGE" THEN Manager_handle_children_status_change(s)
  ELSE IF "STOP_SIMULATON" \notin CommandType THEN Raise(s)
       ELSE IF cmd = "STOP_SIMULATON" THEN Manager_handle_stop_simulation(s)
            ELSE s

(***************************************************************************)
(* Dynamic dispatch on the class of the receiving node.                    *)
(***************************************************************************)
handle_upstream_command(n, cmd, s0) ==
  IF s0.exc THEN s0
  ELSE IF s0.depth >= RecursionLimit THEN RecursionError(s0)
  ELSE LET s == Enter(s0) IN Leave(
       CASE Kind(n) = "Manager" -> Manager_handle_upstream_command(cmd, s)
         [] Kind(n) = "Simple" -> s
         [] Kind(n) = "Disjoint" ->
              IF cmd = "STATUS_CHANGE"
              THEN Disjoint_handle_children_status_change(n, s) ELSE s
         [] Kind(n) = "Existence" ->
              IF cmd = "STATUS_CHANGE"
              THEN Existence_handle_children_status_change(n, s) ELSE s
         [] Kind(n) = "Absence" ->
              IF cmd = "STATUS_CHANGE"
              THEN Absence_handle_children_status_change(n, s) ELSE s
         [] Kind(n) = "Requirement" ->
              IF cmd = "STATUS_CHANGE"
              THEN Requirement_handle_children_status_change(n, s) ELSE s
         [] Kind(n) = "Response" ->
              IF cmd = "STATUS_CHANGE"
              THEN Response_handle_children_status_change(n, s) ELSE s
         [] Kind(n) = "Prevention" ->
              IF cmd = "STATUS_CHANGE"
              THEN Prevention_handle_children_status_change(n, s) ELSE s)

handle_downstream_command(n, cmd, s0) ==
  IF s0.exc THEN s0
  ELSE IF s0.depth >= RecursionLimit THEN RecursionError(s0)
  ELSE LET s == Enter(s0) IN Leave(
       CASE Kind(n) = "Simple" -> Simple_handle_downstream_command(n, cmd, s)
         [] Kind(n) = "Disjoint" -> Disjoint_handle_downstream_command(n, cmd, s)
         [] Kind(n) = "Existence" -> Existence_handle_downstream_command(n, cmd, s)
         [] Kind(n) = "Absence" -> Absence_handle_downstream_command(n, cmd, s)
         [] Kind(n) = "Requirement" -> Requirement_handle_downstream_command(n, cmd, s)
         [] Kind(n) = "Response" -> Response_handle_downstream_command(n, cmd, s)
         [] Kind(n) = "Prevention" -> Prevention_handle_downstream_command(n, cmd, s))

(***************************************************************************)
(* CallbackGenerator (callback.py).  A message is a dict with at most the  *)
(* field "x"; values are ints and strs.  A compiled predicate is a closure,*)
(* kept as a record of the generator that made it and what it captured.    *)
(***************************************************************************)
MaxVal == 1

Values == [type : {"int", "str"}, val : 0..MaxVal]

\* a message with the field, or one without it
Messages ==
  {[has |-> TRUE, x |-> v] : v \in Values}
    \cup {[has |-> FALSE, x |-> [type |-> "int", val |-> 0]]}

FieldAccess == [kind |-> "field"]
Literal(v) == [kind |-> "literal", value |-> v]

ComparisonOps == {"=", "!=", "<", "<=", ">", ">="}
LogicalOps == {"and", "iff", "implies"}
\* operators of HPL that generate_callback has no branch for
OtherOps == {"or", "+"}

BinaryOperator(op, a, b) ==
  [kind |-> "binary", op |-> op, operand1 |-> a, operand2 |-> b]

\* comparisons of the field with a literal, and operators over two of them
SimpleOperators ==
  {BinaryOperator(op, FieldAccess, Literal(v)) :
     op \in ComparisonOps \cup {"+"}, v \in Values}

Operators ==
  SimpleOperators \cup
  {BinaryOperator(op, a, b) :
     op \in LogicalOps \cup {"or"}, a \in SimpleOperators, b \in SimpleOperators}

RaisedException == [kind |-> "raise"]
NotCompiled == [kind |-> "none"]

generate_callback_equal(field, value) ==
  [kind |-> "callback", fn |-> "equal", field |-> field, value |-> value]
generate_callback_different(field, value) ==
  [kind |-> "callback", fn |-> "different", field |-> field, value |-> value]
generate_callback_lesser(field, value) ==
  [kind |-> "callback", fn |-> "lesser", field |-> field, value |-> value]
generate_callback_lesser_than(field, value) ==
  [kind |-> "callback", fn |-> "lesser_than", field |-> field, value |-> value]
generate_callback_greater(field, value) ==
  [kind |-> "callback", fn |-> "greater", field |-> field, value |-> value]
generate_callback_greater_than(field, value) ==
  [kind |-> "callback", fn |-> "greater_than", field |-> field, value |-> value]
generate_callback_iff(anterior, posterior) ==
  [kind |-> "callback", fn |-> "iff", anterior |-> anterior, posterior |-> posterior]
generate_callback_and(anterior, posterior) ==
  [kind |-> "callback", fn |-> "and", anterior |-> anterior, posterior |-> posterior]

RECURSIVE generate_callback(_)
RECURSIVE extract_argument(_)

extract_argument(operand) ==
  CASE operand.kind = "field" -> [kind |-> "name"]
    [] operand.kind = "literal" -> [kind |-> "value", value |-> operand.value]
    [] operand.kind = "binary" -> generate_callback(operand)

\* variant: a token without a branch is compiled like 'and'
generate_callback_lenient(op) ==
  LET arg1 == extract_argument(op.operand1) IN
  IF arg1.kind = "raise" THEN RaisedException
  ELSE LET arg2 == extract_argument(op.operand2) IN
       IF arg2.kind = "raise" THEN RaisedException
       ELSE generate_callback_and(arg1, arg2)

generate_callback(op) ==
  LET arg1 == extract_argument(op.operand1) IN
  IF arg1.kind = "raise" THEN RaisedException
  ELSE LET arg2 == extract_argument(op.operand2) IN
       IF arg2.kind = "raise" THEN RaisedException
       ELSE CASE op.op = "=" -> generate_callback_equal(arg1, arg2.value)
              [] op.op = "!=" -> generate_callback_different(arg1, arg2.value)
              [] op.op = "<" -> generate_callback_lesser(arg1, arg2.value)
              [] op.op = "<=" -> generate_callback_lesser_than(arg1, arg2.value)
              [] op.op = ">" -> generate_callback_greater(arg1, arg2.value)
              [] op.op = ">=" -> generate_callback_greater_than(arg1, arg2.value)
              [] op.op \in {"iff", "implies"} -> generate_callback_iff(arg2, arg1)
              [] op.op = "and" -> generate_callback_and(arg1, arg2)
              [] OTHER -> RaisedException

\* Python's ordering of two values: ints by number, strs by their order,
\* TypeError for an int against a str
Ordered(a, b, lt, eq) ==
  IF a.type # b.type THEN "raise"
  ELSE IF (lt /\ a.val < b.val) \/ (eq /\ a.val = b.val) \/ (~lt /\ a.val > b.val)
       THEN "True" ELSE "False"

\* the closure cb applied to the message m: "True", "False" or "raise"
RECURSIVE Call(_, _)
Call(cb, m) ==
  IF cb.fn \in {"iff", "and"}
  THEN LET a == Call(cb.anterior, m) IN
       IF a = "raise" THEN "raise"
       ELSE IF a = "True" THEN Call(cb.posterior, m) ELSE "False"
  ELSE IF ~m.has THEN "raise"          \* msg[field]: KeyError
  ELSE CASE cb.fn = "equal" -> IF m.x = cb.value THEN "True" ELSE "False"
         [] cb.fn = "different" -> IF m.x # cb.value THEN "True" ELSE "False"
         [] cb.fn = "lesser" -> Ordered(m.x, cb.value, TRUE, FALSE)
         [] cb.fn = "lesser_than" -> Ordered(m.x, cb.value, TRUE, TRUE)
         [] cb.fn = "greater" -> Ordered(m.x, cb.value, FALSE, FALSE)
         [] cb.fn = "greater_than" -> Ordered(m.x, cb.value, FALSE, TRUE)

\* nothing is being compiled
CallbackIdle ==
  /\ operator = NotCompiled
  /\ msg = [has |-> FALSE, x |-> [type |-> "int", val |-> 0]]
  /\ callback = NotCompiled
  /\ verdict = "none"

(***************************************************************************)
(* SimulationRequirementsVisitor / SimulationRequirementsParser            *)
(* (parser.py).  The nodes built by the visitor live in an arena: node i   *)
(* has kind[i], father[i] (0 for None), children[i] and, for a leaf, the   *)
(* compiled predicate callback[i].                                         *)
(***************************************************************************)
MaxChildren == 2

\* one predicate for every operator token, and one whose operand has a
\* token without a branch
Predicate(op) ==
  IF op \in ComparisonOps \cup {"+"}
  THEN BinaryOperator(op, FieldAccess, Literal([type |-> "int", val |-> 1]))
  ELSE BinaryOperator(op,
         BinaryOperator("=", FieldAccess, Literal([type |-> "int", val |-> 0])),
         BinaryOperator("<", FieldAccess, Literal([type |-> "int", val |-> 1])))

NestedOtherPredicate == BinaryOperator("and", Predicate("="), Predicate("+"))

Predicates ==
  {Predicate(op) : op \in ComparisonOps \cup LogicalOps \cup OtherOps}
    \cup {NestedOtherPredicate}

SimpleEvent(p) == [kind |-> "simple", predicate |-> p]
EventDisjunction(e1, e2) == [kind |-> "disjunction", event1 |-> e1, event2 |-> e2]

SimpleEvents == {SimpleEvent(p) : p \in Predicates}
\* the events under a disjunction
DisjunctEvents == {SimpleEvent(Predicate(op)) : op \in {"=", "<", "or"}}

Events ==
  SimpleEvents \cup {EventDisjunction(e1, e2) : e1 \in DisjunctEvents, e2 \in DisjunctEvents}

PatternKinds == {"existence", "absence", "response", "requirement", "prevention"}

\* HplPattern: node.is_<pattern> and node.children()
Patterns ==
  UNION {[pattern : PatternKinds, children : [1..k -> Events]] : k \in 1..MaxChildren}

\* a property with one pattern, and a few with two
Asts ==
  {<<p>> : p \in Patterns}
    \cup {<<p, q>> : p \in {x \in Patterns : x.children = <<SimpleEvent(Predicate("="))>>},
                     q \in {x \in Patterns : x.children = <<SimpleEvent(Predicate("<"))>>}}

EmptyArena == [kind |-> <<>>, father |-> <<>>, children |-> <<>>, callback |-> <<>>]

\* a node constructor: children = [], father = None
NewNode(a, k, cb) ==
  [kind |-> Append(a.kind, k), father |-> Append(a.father, 0),
   children |-> Append(a.children, <<>>), callback |-> Append(a.callback, cb)]

\* variant: the child is appended but its father is not set
Link_fatherless(a, node, child) ==
  [a EXCEPT !.children[node] = Append(@, child)]

\* child.father = node; node.children.append(child)
Link(a, node, child) ==
  [a EXCEPT !.father[child] = node, !.children[node] = Append(@, child)]

initialize_simple_requirement_node(a, event) ==
  LET cb == generate_callback(event.predicate) IN
  IF cb.kind = "raise" THEN [arena |-> a, node |-> 0, exc |-> TRUE]
  ELSE [arena |-> NewNode(a, "Simple", cb), node |-> Len(a.kind) + 1, exc |-> FALSE]

RECURSIVE extract_requirement_node(_, _)

initialize_disjunction_requirement_event(a, event) ==
  LET disjoint_node == Len(a.kind) + 1
      r1 == extract_requirement_node(NewNode(a, "Disjoint", NotCompiled), event.event1)
  IN  IF r1.exc THEN r1
      ELSE LET r2 == extract_requirement_node(Link(r1.arena, disjoint_node, r1.node),
                                              event.event2)
           IN  IF r2.exc THEN r2
               ELSE [arena |-> Link(r2.arena, disjoint_node, r2.node),
                     node |-> disjoint_node, exc |-> FALSE]

extract_requirement_node(a, event) ==
  IF event.kind = "simple" THEN initialize_simple_requirement_node(a, event)
  ELSE initialize_disjunction_requirement_event(a, event)

PatternNodeKind(pattern) ==
  CASE pattern = "existence" -> "Existence"
    [] pattern = "absence" -> "Absence"
    [] pattern = "response" -> "Response"
    [] pattern = "requirement" -> "Requirement"
    [] pattern = "prevention" -> "Prevention"

\* the loop over node.children() of visit_hpl_pattern, from the i-th child on
RECURSIVE VisitChildren(_, _, _, _)
VisitChildren(a, pattern_node, children, i) ==
  IF i > Len(children) THEN [arena |-> a, node |-> pattern_node, exc |-> FALSE]
  ELSE LET r == extract_requirement_node(a, children[i]) IN
       IF r.exc THEN r
       ELSE VisitChildren(Link(r.arena, pattern_node, r.node), pattern_node, children, i + 1)

\* st is the visitor: its arena of nodes and its requirements list
visit_hpl_pattern(st, node) ==
  LET r == VisitChildren(NewNode(st.arena, PatternNodeKind(node.pattern), NotCompiled),
                         Len(st.arena.kind) + 1, node.children, 1)
  IN  IF r.exc THEN [st EXCEPT !.state = "raised"]
      ELSE [st EXCEPT !.arena = r.arena,
                      !.requirements = Append(@, r.node)]

\* the loop over ast.iterate() of parse, from the i-th pattern on
RECURSIVE Accept(_, _, _)
Accept(st, nodes, i) ==
  IF i > Len(nodes) THEN [st EXCEPT !.state = "returned"]
  ELSE LET r == visit_hpl_pattern(st, nodes[i]) IN
       IF r.state = "raised"
       THEN [state |-> "raised", arena |-> EmptyArena, requirements |-> <<>>]
       ELSE Accept(r, nodes, i + 1)

NotParsed == [state |-> "none", arena |-> EmptyArena, requirements |-> <<>>]

parse(nodes) == Accept(NotParsed, nodes, 1)

\* nothing is being parsed
ParserIdle ==
  /\ ast = <<>>
  /\ parsed = NotParsed

(***************************************************************************)
(* DockerClient (clients/docker.py).  The daemon is a count of networks    *)
(* and of containers per name; a lookup returns listing[0] when the        *)
(* listing is not empty.  Every call of the Docker API may raise           *)
(* DockerException, which the client turns into DockerAPIError.            *)
(***************************************************************************)
DOCKER_RUN_TIMEOUT == 120
DOCKER_RUN_WAIT_STATUS == 3

MaxDockerCalls == 2

Names == {"a", "b"}
Statuses == {"created", "running", "exited"}

\* get_network(name) / get_container(name): is the listing non-empty
get_network(name) == networks[name] > 0
get_container(name) == containers[name].count > 0

\* variant: the network is created without a lookup
create_network_always(name, listFails, createFails) ==
  IF createFails THEN [networks |-> networks, api |-> TRUE, raised |-> TRUE]
  ELSE [networks |-> [networks EXCEPT ![name] = @ + 1],
        api |-> TRUE, raised |-> FALSE]

create_network(name, listFails, createFails) ==
  IF listFails THEN [networks |-> networks, api |-> FALSE, raised |-> TRUE]
  ELSE IF ~get_network(name)
       THEN IF createFails
            THEN [networks |-> networks, api |-> TRUE, raised |-> TRUE]
            ELSE [networks |-> [networks EXCEPT ![name] = @ + 1],
                  api |-> TRUE, raised |-> FALSE]
       ELSE [networks |-> networks, api |-> FALSE, raised |-> FALSE]

run_container(name, listFails, runFails) ==
  IF listFails THEN [containers |-> containers, api |-> FALSE, raised |-> TRUE]
  ELSE IF ~get_container(name)
       THEN IF runFails
            THEN [containers |-> containers, api |-> TRUE, raised |-> TRUE]
            ELSE [containers |-> [containers EXCEPT ![name] =
                                    [count |-> @.count + 1, status |-> "created"]],
                  api |-> TRUE, raised |-> FALSE]
       ELSE [containers |-> containers, api |-> FALSE, raised |-> FALSE]

remove_network(name) ==
  IF get_network(name) THEN [networks EXCEPT ![name] = @ - 1] ELSE networks

remove_container(name) ==
  IF get_container(name)
  THEN [containers EXCEPT ![name] = [count |-> @.count - 1,
                                     status |-> IF @.count = 1 THEN "created"
                                                ELSE @.status]]
  ELSE containers

NotWaiting ==
  [pc |-> "idle", name |-> "a", status |-> "running", elapsed_time |-> 0,
   sleeps |-> 0, error |-> "none"]

\* variant: the loop sleeps without adding to elapsed_time
wait_for_container_status_patient(w, listFails) ==
  IF listFails THEN [w EXCEPT !.pc = "raised", !.error = "api"]
  ELSE IF get_container(w.name)
       THEN IF w.elapsed_time < DOCKER_RUN_TIMEOUT
            THEN IF containers[w.name].status = w.status
                 THEN [w EXCEPT !.pc = "returned"]
                 ELSE [w EXCEPT !.sleeps = IF @ < 50 THEN @ + 1 ELSE @]
            ELSE [w EXCEPT !.pc = "raised", !.error = "timeout"]
       ELSE [w EXCEPT !.pc = "raised", !.error = "absent"]

\* one pass of the while loop of wait_for_container_status, the sleep included
wait_for_container_status(w, listFails) ==
  IF listFails THEN [w EXCEPT !.pc = "raised", !.error = "api"]
  ELSE IF get_container(w.name)
       THEN IF w.elapsed_time < DOCKER_RUN_TIMEOUT
            THEN IF containers[w.name].status = w.status
                 THEN [w EXCEPT !.pc = "returned"]
                 ELSE [w EXCEPT !.elapsed_time = @ + DOCKER_RUN_WAIT_STATUS,
                                !.sleeps = @ + 1]
            ELSE [w EXCEPT !.pc = "raised", !.error = "timeout"]
       ELSE [w EXCEPT !.pc = "raised", !.error = "absent"]

NoCall == [op |-> "none", name |-> "a", api |-> FALSE, raised |-> FALSE]

\* no Docker client is in use
DockerIdle ==
  /\ networks = [n \in Names |-> 0]
  /\ containers = [n \in Names |-> [count |-> 0, status |-> "created"]]
  /\ wait = NotWaiting
  /\ dockerCalls = 0
  /\ dockerLast = NoCall

(***************************************************************************)
(* The threads of a run of a Manager with one Simple leaf, after           *)
(* connect_to_rosbridge: each threading.Timer runs its callback on a       *)
(* thread of its own, the bridge client calls message_handler on its       *)
(* thread.  A thread moves one statement at a time.                        *)
(***************************************************************************)
MaxDelivered == 2

Threads == {"start_timer", "stop_timer", "bridge"}

\* the statements of Manager.handle_children_status_change (manager.py 80-85)
\* and Manager.handle_stop_timeout (manager.py 62)
ManagerStatements == {"m_assess", "m_flip", "m_check", "m_stop", "m_stop_timeout"}

\* the statements of Simple.message_handler (simple.py 86-91); the call of
\* send_upstream_cmd stays in message_handler until the Manager returns
SimpleStatements == {"s_flip"} \cup (ManagerStatements \ {"m_stop_timeout"})

\* the thread is handling an event in the node
Handling(t, node) ==
  \/ node = "Manager" /\ pc[t] \in ManagerStatements
  \/ node = "Simple" /\ t = "bridge" /\ pc[t] \in SimpleStatements
  \* RosbridgeDisconnect, sent downstream by stop_simulation
  \/ node = "Simple" /\ t # "bridge" /\ pc[t] \in {"m_stop", "m_stop_timeout"}

\* where a thread is outside every handler
Outside(t) == IF t = "bridge" THEN "idle" ELSE "done"

\* the I/O threads of the bridge client (rigelcore.clients.ROSBridgeClient)
IOThreads == {"io1", "io2"}

MaxHandled == 4

NoHandler == [pc |-> "idle", pv |-> FALSE]

NewLeaf ==
  [satisfied |-> FALSE, sent |-> 0, flips |-> 0, handled |-> 0,
   last |-> FALSE, unchanged |-> FALSE]

LeafIdle ==
  /\ io = [t \in IOThreads |-> NoHandler]
  /\ leaf = NewLeaf

ThreadsIdle ==
  /\ LeafIdle
  /\ pc = [t \in Threads |-> "idle"]
  /\ mem = [manager |-> FALSE, simple |-> FALSE, finished |-> FALSE,
            cancelled |-> FALSE, subscribed |-> FALSE, removes |-> 0]
  /\ delivered = 0

(***************************************************************************)
(* The state machine.                                                      *)
(***************************************************************************)
InitProgram ==
  /\ tree \in Trees
  /\ satisfied = [n \in 1..Len(tree.kind) |-> tree.kind[n] = "Absence"]
  /\ client = [n \in 1..Len(tree.kind) |-> FALSE]
  /\ subs = [n \in 1..Len(tree.kind) |-> 0]
  /\ regs = [n \in 1..Len(tree.kind) |-> 0]
  /\ rems = [n \in 1..Len(tree.kind) |-> 0]
  /\ timer = [n \in 1..Len(tree.kind) |-> NewTimer]
  /\ saved = [n \in 1..Len(tree.kind) |-> FALSE]
  /\ start_timer = NewTimer
  /\ stop_timer = NewTimer
  /\ finished = FALSE
  /\ lastOp = "init"
  /\ raised = FALSE
  /\ stopEmit = FALSE
  /\ stopRecv = FALSE
  /\ nStatus = 0
  /\ connects = 0
  /\ disconnects = 0
  /\ messages = 0
  /\ lastLeaf = 0
  /\ lastPv = [n \in 1..Len(tree.kind) |-> FALSE]
  /\ noReturn = [n \in 1..Len(tree.kind) |-> FALSE]
  /\ predicateRaised = FALSE
  /\ deepest = 0
  /\ overflow = FALSE

Init == InitProgram /\ CallbackIdle /\ ParserIdle /\ DockerIdle /\ ThreadsIdle

\* both children of the Prevention node n are satisfied in state s
BothSatisfied(n, s) ==
  /\ Kind(n) = "Prevention"
  /\ s.satisfied[Child(n, 1)]
  /\ s.satisfied[Child(n, 2)]

\* The state a handler leaves behind becomes the program state.
Install(op, r) ==
  /\ satisfied' = r.satisfied
  /\ client' = r.client
  /\ subs' = r.subs
  /\ regs' = r.regs
  /\ rems' = r.rems
  /\ timer' = r.timer
  /\ saved' = r.saved
  /\ start_timer' = r.start_timer
  /\ stop_timer' = r.stop_timer
  /\ finished' = r.finished
  /\ lastOp' = op
  /\ raised' = r.exc
  /\ stopEmit' = r.stopEmit
  /\ stopRecv' = r.stopRecv
  /\ nStatus' = r.nStatus
  /\ deepest' = r.deepest
  /\ overflow' = r.overflow
  /\ noReturn' = [n \in Nodes |-> noReturn[n] \/ BothSatisfied(n, r)]
  /\ tree' = tree
  /\ UNCHANGED OtherVars

\* The client calls Manager.connect_to_rosbridge.
Connect ==
  /\ connects < MaxConnects
  /\ Install("connect", Manager_connect_to_rosbridge(Cur))
  /\ connects' = connects + 1
  /\ lastLeaf' = 0
  /\ predicateRaised' = FALSE
  /\ UNCHANGED <<disconnects, messages, lastPv>>

\* The client calls Manager.disconnect_from_rosbridge.
Disconnect ==
  /\ disconnects < MaxDisconnects
  /\ Install("disconnect", Manager_disconnect_from_rosbridge(Cur))
  /\ disconnects' = disconnects + 1
  /\ lastLeaf' = 0
  /\ predicateRaised' = FALSE
  /\ UNCHANGED <<connects, messages, lastPv>>

\* A message is published on the topic of a leaf while the bridge client is
\* in use: the bridge calls the leaf's handler when the leaf is subscribed and
\* drops the message otherwise.
Message ==
  /\ messages < MaxMessages
  /\ connects > 0
  /\ \E n \in Leaves, pv \in PredicateOutcomes :
       /\ Install("message",
                  IF subs[n] > 0 THEN Simple_message_handler(n, pv, Cur) ELSE Cur)
       /\ lastLeaf' = n
       /\ lastPv' = [lastPv EXCEPT ![n] = (pv = "True")]
       /\ predicateRaised' = (pv = "raise" /\ subs[n] > 0)
  /\ messages' = messages + 1
  /\ UNCHANGED <<connects, disconnects>>

\* The Manager's min_timeout timer fires.
StartTimeout ==
  /\ Timer_pending(start_timer)
  /\ Install("start_timeout",
             Manager_handle_start_timeout([Cur EXCEPT !.start_timer.fired = TRUE]))
  /\ lastLeaf' = 0
  /\ predicateRaised' = FALSE
  /\ UNCHANGED <<connects, disconnects, messages, lastPv>>

\* The Manager's max_timeout timer fires.
StopTimeout ==
  /\ Timer_pending(stop_timer)
  /\ Install("stop_timeout",
             Manager_handle_stop_timeout([Cur EXCEPT !.stop_timer.fired = TRUE]))
  /\ lastLeaf' = 0
  /\ predicateRaised' = FALSE
  /\ UNCHANGED <<connects, disconnects, messages, lastPv>>

\* The timer of a pattern node fires.
NodeTimeout ==
  /\ \E n \in Nodes :
       /\ Kind(n) \in {"Existence", "Requirement", "Response", "Prevention"}
       /\ Timer_pending(timer[n])
       /\ LET s == [Cur EXCEPT !.timer[n].fired = TRUE] IN
          Install("node_timeout",
                  CASE Kind(n) = "Existence" -> Existence_handler_timeout(n, s)
                    [] Kind(n) = "Requirement" -> Requirement_handler_timeout(n, s)
                    [] Kind(n) = "Response" -> Response_handle_timeout(n, s)
                    [] Kind(n) = "Prevention" -> Prevention_handle_timeout(n, s))
  /\ lastLeaf' = 0
  /\ predicateRaised' = FALSE
  /\ UNCHANGED <<connects, disconnects, messages, lastPv>>

Next ==
  \/ Connect
  \/ Disconnect
  \/ Message
  \/ StartTimeout
  \/ StopTimeout
  \/ NodeTimeout

Spec == Init /\ [][Next]_vars

\* A caller (a unit test, a bridge stub) invokes the public message_handler
\* of a leaf directly, without a subscription.
CallMessageHandler ==
  /\ messages < MaxMessages
  /\ \E n \in Leaves, pv \in PredicateOutcomes :
       /\ subs[n] = 0
       /\ Install("message", Simple_message_handler(n, pv, Cur))
       /\ lastLeaf' = n
       /\ lastPv' = [lastPv EXCEPT ![n] = (pv = "True")]
       /\ predicateRaised' = (pv = "raise")
  /\ messages' = messages + 1
  /\ UNCHANGED <<connects, disconnects>>

\* A caller hands a command of one of the existing types to the Manager's
\* public handle_upstream_command.
CallUpstreamCommand ==
  /\ \E cmd \in CommandType :
       Install("upstream", Manager_handle_upstream_command(cmd, Cur))
  /\ lastLeaf' = 0
  /\ predicateRaised' = FALSE
  /\ UNCHANGED <<connects, disconnects, messages, lastPv>>

UnitNext == Next \/ CallMessageHandler \/ CallUpstreamCommand

\* The runs in which the nodes' public handlers are also driven directly.
UnitSpec == Init /\ [][UnitNext]_vars

\* Timers that are pending fire when their interval has elapsed.
LiveSpec ==
  /\ Spec
  /\ WF_vars(StartTimeout)
  /\ WF_vars(StopTimeout)
  /\ WF_vars(NodeTimeout)

TypeOK ==
  /\ tree \in Trees
  /\ satisfied \in [Nodes -> BOOLEAN]
  /\ finished \in BOOLEAN
  /\ \A n \in Nodes : subs[n] <= regs[n]
  /\ lastLeaf \in Leaves \cup {0}
  /\ lastPv \in [Nodes -> BOOLEAN]
  /\ noReturn \in [Nodes -> BOOLEAN]

(***************************************************************************)
(* Helpers of the properties.                                              *)
(***************************************************************************)
\* n is the posterior child of a Response node, or stands below it
RECURSIVE UnderResponsePosterior(_)
UnderResponsePosterior(n) ==
  IF tree.father[n] = 0 THEN FALSE
  ELSE \/ (Kind(tree.father[n]) = "Response" /\ Child(tree.father[n], 2) = n)
       \/ UnderResponsePosterior(tree.father[n])

\* the defining function of a non-leaf node over its children's flags
Defining(n) ==
  CASE Kind(n) = "Manager" ->
         Len(tree.children[n]) > 0
         /\ \A i \in 1..Len(tree.children[n]) : satisfied[Child(n, i)]
    [] Kind(n) = "Disjoint" ->
         \E i \in 1..Len(tree.children[n]) : satisfied[Child(n, i)]
    [] Kind(n) = "Existence" -> satisfied[Child(n, 1)]
    [] Kind(n) = "Absence" -> ~satisfied[Child(n, 1)]
    [] Kind(n) \in {"Response", "Requirement"} ->
         satisfied[Child(n, 1)] /\ satisfied[Child(n, 2)]

(***************************************************************************)
(* C1: after Manager.connect has been called, Manager.finished eventually  *)
(* becomes true, for every tree shape and every message stream (timers     *)
(* that are pending do fire: LiveSpec).                                    *)
(***************************************************************************)
C1_FinishedEventually == (connects > 0) ~> finished

(***************************************************************************)
(* C2: a step in which a descendant emits StopSimulation upstream ends     *)
(* with Manager.finished = true.                                           *)
(***************************************************************************)
C2_StopSimulationFinishes == stopEmit => finished

(***************************************************************************)
(* C3: when Manager.finished is true every leaf has had exactly one        *)
(* remove_message_handler call per register_message_handler call.          *)
(***************************************************************************)
C3_RegisterRemoveBalanced == finished => \A n \in Leaves : rems[n] = regs[n]

(***************************************************************************)
(* C4: in every reachable state a leaf holds no subscription or exactly    *)
(* one (it is subscribed iff listening, and then exactly once).            *)
(***************************************************************************)
C4_AtMostOneSubscription == \A n \in Leaves : subs[n] \in {0, 1}

(***************************************************************************)
(* C5: connect and disconnect are idempotent.  A connect that reaches a    *)
(* leaf that is already subscribed, and a disconnect that reaches a leaf   *)
(* that is not subscribed, leave the leaf's subscription count unchanged,  *)
(* and neither call raises.                                                *)
(***************************************************************************)
C5_ConnectDisconnectIdempotent ==
  [][/\ lastOp' = "connect" =>
          /\ \A n \in Leaves : subs[n] >= 1 => subs'[n] = subs[n]
          /\ (connects >= 1 /\ ~raised) => ~raised'
     /\ lastOp' = "disconnect" =>
          /\ \A n \in Leaves : subs[n] = 0 => subs'[n] = 0
          /\ (\A n \in Leaves : subs[n] = 0) => ~raised']_vars

(***************************************************************************)
(* C6: between handlers every non-leaf node's satisfied flag equals its    *)
(* pattern's defining function of its children's flags (Manager, Disjoint, *)
(* Existence, Absence, Response, Requirement).                             *)
(***************************************************************************)
C6_SatisfiedIsDefiningFunction ==
  \A n \in Nodes :
    Kind(n) \in {"Manager", "Disjoint", "Existence", "Absence", "Response",
                 "Requirement"}
      => satisfied[n] = Defining(n)

(***************************************************************************)
(* C7: once Manager.finished is true no step changes any node's satisfied  *)
(* flag and no step builds a StatusChange command.                         *)
(***************************************************************************)
C7_QuietAfterFinished ==
  [][finished => (satisfied' = satisfied /\ nStatus' = 0)]_vars

(***************************************************************************)
(* C8: Manager.finished changes from false to true only in a step in which *)
(* the Manager's satisfied becomes true, the max_timeout timer fires, or   *)
(* the Manager handles a StopSimulation command.                           *)
(***************************************************************************)
C8_FinishedOnlyByTriggers ==
  [][(~finished /\ finished') =>
        \/ (~satisfied[MANAGER] /\ satisfied'[MANAGER])
        \/ lastOp' = "stop_timeout"
        \/ stopRecv']_vars

C8_Witness ==
  /\ finished
  /\ lastOp = "message"
  /\ satisfied[MANAGER]
  /\ ~stop_timer.fired

(***************************************************************************)
(* C9: after Manager.connect has returned every leaf is subscribed, except *)
(* the leaves under the posterior child of a Response node.                *)
(***************************************************************************)
C9_ConnectSubscribesLeaves ==
  (lastOp = "connect" /\ ~raised) =>
     \A n \in Leaves : ~UnderResponsePosterior(n) => subs[n] >= 1

(***************************************************************************)
(* C10: after Manager.disconnect, and after stop_simulation, has completed *)
(* no leaf remains subscribed.                                             *)
(***************************************************************************)
C10_DisconnectUnsubscribesLeaves ==
  ((lastOp \in {"disconnect", "stop_timeout"}) /\ ~raised) =>
     \A n \in Leaves : subs[n] = 0

\* the anterior and the posterior child of a two-children node
Anterior(n) == Child(n, 1)

Posterior(n) == Child(n, 2)

ResponseNodes == {n \in Nodes : Kind(n) = "Response"}

PreventionNodes == {n \in Nodes : Kind(n) = "Prevention"}

\* C11: for a Response node the first RosbridgeConnect subscribes the anterior
\* child and leaves the posterior alone; the posterior becomes subscribed only
\* in a step in which the anterior becomes satisfied; and a message published
\* for the posterior while it is not subscribed changes no node's flag, no
\* subscription and not the end of the run.
C11_PosteriorOnlyAfterAnterior ==
  [][\A n \in ResponseNodes :
       /\ (lastOp' = "connect" /\ connects = 0) =>
            (subs'[Anterior(n)] >= 1 /\ subs'[Posterior(n)] = subs[Posterior(n)])
       /\ (subs[Posterior(n)] = 0 /\ subs'[Posterior(n)] > 0) =>
            (~satisfied[Anterior(n)] /\ satisfied'[Anterior(n)])
       /\ (lastLeaf' = Posterior(n) /\ subs[Posterior(n)] = 0) =>
            (satisfied' = satisfied /\ subs' = subs /\ finished' = finished)]_vars

\* C12: under a Manager whose only child is Response(anterior, posterior), a
\* message satisfying the posterior that is published after one satisfying the
\* anterior, before any deadline has fired and before any disconnect, makes
\* the Response node satisfied (its timer cancelled, both leaves unsubscribed,
\* a StatusChange sent upstream) and ends the run with Manager.satisfied.
C12_ResponseOrderingSatisfies ==
  ( /\ tree = TreeResponse
    /\ lastLeaf = Posterior(2) /\ lastPv[Posterior(2)] /\ lastPv[Anterior(2)]
    /\ ~stop_timer.fired /\ ~timer[2].fired /\ disconnects = 0 )
  => /\ satisfied[2] /\ timer[2].cancelled
     /\ subs[Anterior(2)] = 0 /\ subs[Posterior(2)] = 0
     /\ nStatus > 0
     /\ finished /\ satisfied[MANAGER]

\* C13: under a Manager whose only child is Response(anterior, posterior), a
\* run in which the anterior is never satisfied never subscribes the
\* posterior, and once the Manager was connected the deadline ends it: finished
\* becomes true with Manager.satisfied false.
C13_ResponseInversionEnds ==
  \/ tree # TreeResponse
  \/ <>(tree = TreeResponse /\ satisfied[Anterior(2)])
  \/ /\ [](tree = TreeResponse => subs[Posterior(2)] = 0)
     /\ (connects > 0) ~> (finished /\ ~satisfied[MANAGER])

ExistenceNodes == {n \in Nodes : Kind(n) = "Existence"}

\* C14: an Existence node is unsatisfied at the start and becomes satisfied in
\* exactly the steps in which its child becomes satisfied, sending StatusChange
\* upstream in that step; when it is the only child of the Manager, a message
\* that makes the leaf satisfied ends the step with the leaf satisfied,
\* Manager.satisfied true and finished true.
C14_ExistenceFollowsChild ==
  [][\A n \in ExistenceNodes :
       /\ lastOp = "init" => ~satisfied[n]
       /\ (~satisfied[n] /\ satisfied'[n])
            <=> (~satisfied[Child(n, 1)] /\ satisfied'[Child(n, 1)])
       /\ (~satisfied[n] /\ satisfied'[n]) => nStatus' >= 2
       /\ ( /\ tree.children[MANAGER] = <<n>>
            /\ ~satisfied[Child(n, 1)] /\ satisfied'[Child(n, 1)] )
            => (satisfied'[MANAGER] /\ finished')]_vars

C14_Witness ==
  /\ tree = TreeExistence
  /\ lastOp = "message" /\ messages = 1
  /\ satisfied[3] /\ satisfied[2] /\ satisfied[MANAGER] /\ finished

\* C15: an Existence node with a finite timeout has a started timer after
\* every RosbridgeConnect it handled; and when that timer fires, the leaf below
\* it is unsubscribed and, if the node is unsatisfied, a StopSimulation is
\* sent upstream.
C15_ExistenceTimerArmed ==
  [][\A n \in ExistenceNodes :
       tree.finite[n] =>
         /\ lastOp' = "connect" => timer'[n].started
         /\ (~timer[n].fired /\ timer'[n].fired) =>
              /\ subs'[Child(n, 1)] = 0
              /\ ~satisfied[n] => stopEmit']_vars

AbsenceNodes == {n \in Nodes : Kind(n) = "Absence"}

\* C16: under a Manager whose only child is Absence(leaf), once a message
\* satisfying the leaf has been published after the connect (no timer fired,
\* no disconnect yet), the Absence node is unsatisfied, the Manager has
\* stopped the simulation (finished) and the Manager's verdict is false.
C16_AbsenceViolatedStops ==
  ( /\ tree = TreeAbsence
    /\ lastLeaf = 3 /\ lastPv[3]
    /\ ~start_timer.fired /\ ~stop_timer.fired /\ disconnects = 0 )
  => (~satisfied[2] /\ finished /\ ~satisfied[MANAGER])

\* C17: an Absence node is satisfied at the start, and once it is unsatisfied
\* no step makes it satisfied again.
C17_AbsenceMonotone ==
  [][\A n \in AbsenceNodes :
       /\ lastOp = "init" => satisfied[n]
       /\ ~satisfied[n] => ~satisfied'[n]]_vars

\* C18: in the step in which the anterior and the posterior child of a
\* Prevention node come to be satisfied together, the node attempts a
\* StopSimulation upstream, its timer is cancelled, both children are
\* unsubscribed and the node is unsatisfied.
C18_PreventionPointOfNoReturn ==
  [][\A n \in PreventionNodes :
       ( /\ ~(satisfied[Anterior(n)] /\ satisfied[Posterior(n)])
         /\ satisfied'[Anterior(n)] /\ satisfied'[Posterior(n)] )
       => /\ stopEmit'
          /\ timer'[n].cancelled
          /\ subs'[Anterior(n)] = 0 /\ subs'[Posterior(n)] = 0
          /\ ~satisfied'[n]]_vars

\* C19: once the anterior and the posterior child of a Prevention node have
\* been satisfied together, the node is unsatisfied in that state and in every
\* later state.
C19_PreventionStaysFalse ==
  \A n \in PreventionNodes : noReturn[n] => ~satisfied[n]

\* C20: a Manager with no children is never satisfied, whatever step is taken
\* (connect, disconnect, min_timeout fire, max_timeout fire), and its finished
\* flag becomes true only in the step in which the max_timeout timer fires.
C20_EmptyManagerNeverSatisfied ==
  [][tree = TreeEmpty =>
       /\ ~satisfied[MANAGER] /\ ~satisfied'[MANAGER]
       /\ (~finished /\ finished') => lastOp' = "stop_timeout"]_vars

C20_Witness ==
  /\ tree = TreeEmpty
  /\ start_timer.fired /\ stop_timer.fired /\ lastOp = "upstream"
  /\ finished /\ ~satisfied[MANAGER]

\* every child of the (non-empty) Manager is satisfied in the current state
ManagerChildrenSatisfied ==
  /\ Len(tree.children[MANAGER]) > 0
  /\ \A i \in 1..Len(tree.children[MANAGER]) : satisfied[Child(MANAGER, i)]

\* C21: when the min_timeout timer fires while every child of a non-empty
\* Manager is satisfied, the step ends with Manager.satisfied true, both
\* Manager timers cancelled and finished true; when some child is unsatisfied
\* (or there is no child) the fire changes no flag, no subscription and no
\* timer other than marking the min_timeout timer as fired.
C21_StartTimeoutDetectsVacuous ==
  [][lastOp' = "start_timeout" =>
       IF ManagerChildrenSatisfied
       THEN /\ satisfied'[MANAGER] /\ finished'
            /\ start_timer'.cancelled /\ stop_timer'.cancelled
       ELSE /\ satisfied' = satisfied /\ finished' = finished
            /\ subs' = subs /\ timer' = timer /\ stop_timer' = stop_timer
            /\ start_timer' = [start_timer EXCEPT !.fired = TRUE]]_vars

C21_Witness ==
  /\ tree = TreeAbsence
  /\ lastOp = "start_timeout" /\ messages = 0
  /\ satisfied[2] /\ satisfied[MANAGER] /\ finished
  /\ start_timer.cancelled /\ stop_timer.cancelled

\* a min_timeout fire that found an unsatisfied child and changed nothing
C21_WitnessUnsatisfied ==
  /\ tree = TreeExistence
  /\ lastOp = "start_timeout" /\ ~satisfied[2] /\ ~finished

\* C22: in a state reached by a run of stop_simulation that returned normally
\* (the max_timeout fire), running stop_simulation once more returns normally
\* with finished true and leaves every leaf's subscription and every leaf's
\* number of remove_message_handler calls as they are.
C22_StopSimulationIdempotent ==
  (lastOp = "stop_timeout" /\ ~raised) =>
    LET r == Manager_stop_simulation(Cur) IN
      /\ ~r.exc /\ r.finished
      /\ r.subs = subs
      /\ r.rems = rems

(***************************************************************************)
(* One compilation of a predicate and one evaluation of it.                *)
(***************************************************************************)
CallbackInit ==
  /\ InitProgram /\ tree = TreeEmpty
  /\ operator \in Operators
  /\ msg \in Messages
  /\ callback = NotCompiled
  /\ verdict = "none"
  /\ ParserIdle /\ DockerIdle /\ ThreadsIdle

\* CallbackGenerator().generate_callback(operator)
GenerateCallback ==
  /\ callback.kind = "none"
  /\ callback' = generate_callback(operator)
  /\ UNCHANGED <<ProgramVars, ParserVars, DockerVars, ThreadVars, operator, msg, verdict>>

\* the compiled predicate is applied to the message
ApplyCallback ==
  /\ callback.kind = "callback"
  /\ verdict = "none"
  /\ verdict' = Call(callback, msg)
  /\ UNCHANGED <<ProgramVars, ParserVars, DockerVars, ThreadVars, operator, msg, callback>>

CallbackNext == GenerateCallback \/ ApplyCallback

CallbackSpec == CallbackInit /\ [][CallbackNext]_vars

\* the value on msg of the sub-predicate compiled from an operand
OperandValue(operand) == Call(generate_callback(operand), msg)

\* C23: the predicate compiled from 'implies' with operand1 = a and
\* operand2 = b returns (not a(m)) or b(m) on every message m on which a and b
\* can be evaluated.
C23_ImpliesIsNotAOrB ==
  ( /\ operator.kind = "binary" /\ operator.op = "implies"
    /\ verdict # "none"
    /\ OperandValue(operator.operand1) # "raise"
    /\ OperandValue(operator.operand2) # "raise" )
  => verdict = IF \/ OperandValue(operator.operand1) = "False"
                  \/ OperandValue(operator.operand2) = "True"
               THEN "True" ELSE "False"

\* C24: a message on which the leaf's predicate raises is handled as a false
\* evaluation that changes nothing: message_handler returns normally, no
\* node's satisfied flag changes, no StatusChange is built and the
\* subscriptions stay as they are.
C24_RaisingPredicateIsFalse ==
  [][predicateRaised' =>
       /\ ~raised'
       /\ satisfied' = satisfied
       /\ nStatus' = 0
       /\ subs' = subs]_vars

(***************************************************************************)
(* One call of SimulationRequirementsParser.parse.                         *)
(***************************************************************************)
ParserInit ==
  /\ InitProgram /\ tree = TreeEmpty
  /\ CallbackIdle /\ DockerIdle /\ ThreadsIdle
  /\ ast \in Asts
  /\ parsed = NotParsed

Parse ==
  /\ parsed.state = "none"
  /\ parsed' = parse(ast)
  /\ UNCHANGED <<ProgramVars, CallbackVars, DockerVars, ThreadVars, ast>>

ParserNext == Parse

ParserSpec == ParserInit /\ [][ParserNext]_vars

\* the operator tokens generate_callback has a branch for
SupportedOps == ComparisonOps \cup LogicalOps

\* the simple events of an event
SimpleEventsIn(event) ==
  IF event.kind = "simple" THEN {event} ELSE {event.event1, event.event2}

\* the simple events of the parsed property
SimpleEventsOfAst ==
  UNION {UNION {SimpleEventsIn(ast[i].children[j]) : j \in 1..Len(ast[i].children)} :
           i \in 1..Len(ast)}

\* C25: for every predicate of the parsed property whose operator token is
\* none of =, !=, <, <=, >, >=, and, iff, implies, generate_callback raises and
\* returns no predicate, and the call of parse ends with that error and
\* returns no requirement list.
C25_UnsupportedOperatorFails ==
  parsed.state # "none" =>
    \A e \in SimpleEventsOfAst :
      e.predicate.op \notin SupportedOps =>
        /\ generate_callback(e.predicate) = RaisedException
        /\ parsed.state = "raised"
        /\ parsed.requirements = <<>>

C25_Witness ==
  /\ ast = <<[pattern |-> "existence",
              children |-> <<SimpleEvent(Predicate("or"))>>]>>
  /\ parsed.state = "raised"

\* the nodes of the arena a
ArenaNodes(a) == 1..Len(a.kind)

\* the places <<n, i>> at which node c stands in a children list
Occurrences(a, c) ==
  {p \in {<<n, i>> : n \in ArenaNodes(a), i \in 1..MaxChildren} :
     p[2] <= Len(a.children[p[1]]) /\ a.children[p[1]][p[2]] = c}

\* following father from n ends at None within k steps
RECURSIVE ReachesRoot(_, _, _)
ReachesRoot(a, n, k) ==
  IF a.father[n] = 0 THEN TRUE
  ELSE IF k = 0 THEN FALSE
  ELSE ReachesRoot(a, a.father[n], k - 1)

\* the subtree at node was built from event, children in the event's order
RECURSIVE BuiltFrom(_, _, _)
BuiltFrom(a, node, event) ==
  IF event.kind = "simple"
  THEN /\ a.kind[node] = "Simple"
       /\ a.callback[node] = generate_callback(event.predicate)
       /\ a.children[node] = <<>>
  ELSE /\ a.kind[node] = "Disjoint"
       /\ Len(a.children[node]) = 2
       /\ BuiltFrom(a, a.children[node][1], event.event1)
       /\ BuiltFrom(a, a.children[node][2], event.event2)

\* C26: the nodes parse returns form trees with consistent links: every child
\* in a node's children has that node as father; a node with a father stands
\* exactly once in exactly one children list and a root (one per pattern, in
\* the requirements list) in none; following father never cycles; and the
\* children of every node stand in the order of the events they were built
\* from (event1 before event2, the pattern's children in AST order).
C26_ParsedTreeIsConsistent ==
  parsed.state = "returned" =>
    LET a == parsed.arena IN
      /\ \A n \in ArenaNodes(a) : \A i \in 1..Len(a.children[n]) :
           a.father[a.children[n][i]] = n
      /\ \A c \in ArenaNodes(a) :
           /\ Cardinality(Occurrences(a, c)) = IF a.father[c] = 0 THEN 0 ELSE 1
           /\ ReachesRoot(a, c, Len(a.kind))
           /\ a.father[c] = 0 <=> \E i \in 1..Len(parsed.requirements) :
                                     parsed.requirements[i] = c
      /\ Len(parsed.requirements) = Len(ast)
      /\ \A i \in 1..Len(ast) :
           LET r == parsed.requirements[i] IN
             /\ a.kind[r] = PatternNodeKind(ast[i].pattern)
             /\ Len(a.children[r]) = Len(ast[i].children)
             /\ \A j \in 1..Len(ast[i].children) :
                  BuiltFrom(a, a.children[r][j], ast[i].children[j])

C26_Witness ==
  /\ parsed.state = "returned"
  /\ ast = <<[pattern |-> "response",
              children |-> <<EventDisjunction(SimpleEvent(Predicate("=")),
                                              SimpleEvent(Predicate("<"))),
                             SimpleEvent(Predicate("implies"))>>]>>
  /\ parsed.arena.children = << <<2, 5>>, <<3, 4>>, <<>>, <<>>, <<>> >>

\* C27: a pattern whose number of children is not the one of its kind (two
\* for response, requirement and prevention, one for existence and absence)
\* makes the construction fail: parse ends with an error and returns no tree.
C27_WrongArityRejected ==
  parsed.state # "none" =>
    \A i \in 1..Len(ast) :
      Len(ast[i].children) #
          (IF ast[i].pattern \in {"existence", "absence"} THEN 1 ELSE 2)
        => parsed.state = "raised"

(***************************************************************************)
(* Calls of a DockerClient against a daemon whose containers change state. *)
(***************************************************************************)
DockerInit ==
  /\ InitProgram /\ tree = TreeEmpty
  /\ CallbackIdle /\ ParserIdle /\ ThreadsIdle
  /\ DockerIdle

\* the client's caller enters wait_for_container_status last: a run is calls
\* of the client, then one wait
Blocked == wait.pc # "idle"

CreateNetwork ==
  /\ ~Blocked
  /\ dockerCalls < MaxDockerCalls
  /\ \E name \in Names, listFails \in BOOLEAN, createFails \in BOOLEAN :
       LET r == create_network(name, listFails, createFails) IN
         /\ networks' = r.networks
         /\ dockerLast' = [op |-> "create_network", name |-> name,
                           api |-> r.api, raised |-> r.raised]
  /\ dockerCalls' = dockerCalls + 1
  /\ UNCHANGED <<ProgramVars, CallbackVars, ParserVars, ThreadVars, containers, wait>>

RunContainer ==
  /\ ~Blocked
  /\ dockerCalls < MaxDockerCalls
  /\ \E name \in Names, listFails \in BOOLEAN, runFails \in BOOLEAN :
       LET r == run_container(name, listFails, runFails) IN
         /\ containers' = r.containers
         /\ dockerLast' = [op |-> "run_container", name |-> name,
                           api |-> r.api, raised |-> r.raised]
  /\ dockerCalls' = dockerCalls + 1
  /\ UNCHANGED <<ProgramVars, CallbackVars, ParserVars, ThreadVars, networks, wait>>

RemoveNetwork ==
  /\ ~Blocked
  /\ \E name \in Names :
       /\ get_network(name)
       /\ networks' = remove_network(name)
  /\ UNCHANGED <<ProgramVars, CallbackVars, ParserVars, ThreadVars, containers, wait,
                 dockerCalls, dockerLast>>

\* remove_container, by this client or by another one while this one waits
RemoveContainer ==
  /\ \E name \in Names :
       /\ get_container(name)
       /\ containers' = remove_container(name)
  /\ UNCHANGED <<ProgramVars, CallbackVars, ParserVars, ThreadVars, networks, wait,
                 dockerCalls, dockerLast>>

\* the daemon moves a container to another status
DaemonStatus ==
  /\ \E name \in Names, s \in Statuses :
       /\ get_container(name)
       /\ containers[name].status # s
       /\ containers' = [containers EXCEPT ![name].status = s]
  /\ UNCHANGED <<ProgramVars, CallbackVars, ParserVars, ThreadVars, networks, wait,
                 dockerCalls, dockerLast>>

\* wait_for_container_status(name, status) is called
WaitStart ==
  /\ wait.pc = "idle"
  /\ \E name \in Names, s \in Statuses :
       wait' = [NotWaiting EXCEPT !.pc = "poll", !.name = name, !.status = s]
  /\ UNCHANGED <<ProgramVars, CallbackVars, ParserVars, ThreadVars, networks, containers,
                 dockerCalls, dockerLast>>

\* the next pass of its loop
WaitPoll ==
  /\ wait.pc = "poll"
  /\ \E listFails \in BOOLEAN : wait' = wait_for_container_status(wait, listFails)
  /\ UNCHANGED <<ProgramVars, CallbackVars, ParserVars, ThreadVars, networks, containers,
                 dockerCalls, dockerLast>>

DockerNext ==
  \/ CreateNetwork \/ RunContainer \/ RemoveNetwork \/ RemoveContainer
  \/ DaemonStatus \/ WaitStart \/ WaitPoll

DockerSpec == DockerInit /\ [][DockerNext]_vars

\* the thread that runs the loop keeps running: sleep returns
DockerLiveSpec == DockerSpec /\ WF_vars(WaitPoll)


\* a call of wait_for_container_status ends
WaitTerminates == (wait.pc = "poll") ~> (wait.pc \in {"returned", "raised"})

\* the outcome of each poll and the count of sleeps
WaitOutcomes ==
  [][ (wait.pc = "poll" /\ wait' # wait) =>
        /\ wait'.pc = "returned" =>
             /\ get_container(wait.name)
             /\ containers[wait.name].status = wait.status
             /\ wait'.sleeps = wait.sleeps
        /\ (wait'.pc = "raised" /\ wait'.error # "api") =>
             \/ ~get_container(wait.name) /\ wait'.error = "absent"
             \/ wait.elapsed_time >= DOCKER_RUN_TIMEOUT /\ wait'.error = "timeout"
        /\ ~get_container(wait.name) => wait'.pc = "raised"
        /\ wait.elapsed_time >= DOCKER_RUN_TIMEOUT => wait'.pc = "raised"
        /\ wait'.pc = "poll" =>
             /\ wait'.sleeps = wait.sleeps + 1
             /\ wait'.elapsed_time = wait.elapsed_time + DOCKER_RUN_WAIT_STATUS
        /\ wait'.elapsed_time = wait'.sleeps * DOCKER_RUN_WAIT_STATUS
        /\ wait'.sleeps <= DOCKER_RUN_TIMEOUT \div DOCKER_RUN_WAIT_STATUS ]_vars

C28_WitnessTimeout ==
  /\ wait.pc = "raised"
  /\ wait.error = "timeout"
  /\ wait.sleeps = DOCKER_RUN_TIMEOUT \div DOCKER_RUN_WAIT_STATUS


ThreadsInit ==
  /\ InitProgram /\ tree = TreeEmpty
  /\ CallbackIdle /\ ParserIdle /\ DockerIdle /\ LeafIdle
  /\ pc = [t \in Threads |-> IF t = "bridge" THEN "idle" ELSE "timer"]
  /\ mem = [manager |-> FALSE, simple |-> FALSE, finished |-> FALSE,
            cancelled |-> FALSE, subscribed |-> TRUE, removes |-> 0]
  /\ delivered = 0

ThreadsUnchanged ==
  UNCHANGED <<ProgramVars, CallbackVars, ParserVars, DockerVars, LeafVars>>

\* threading.Timer: the interval has passed and cancel() was not called
TimerFires(t) ==
  /\ t # "bridge"
  /\ pc[t] = "timer"
  /\ ~mem.cancelled
  /\ pc' = [pc EXCEPT ![t] = IF t = "start_timer" THEN "m_assess"
                             ELSE "m_stop_timeout"]
  /\ UNCHANGED <<mem, delivered>>
  /\ ThreadsUnchanged

\* simple.py 86: the bridge calls message_handler, the predicate is compared
\* with the flag
MessageArrives ==
  /\ pc["bridge"] = "idle"
  /\ mem.subscribed
  /\ delivered < MaxDelivered
  /\ delivered' = delivered + 1
  /\ \E pv \in BOOLEAN :
       pc' = [pc EXCEPT !["bridge"] = IF pv # mem.simple THEN "s_flip" ELSE "idle"]
  /\ UNCHANGED mem
  /\ ThreadsUnchanged

\* simple.py 87-91: the flag flips, StatusChange goes to the father
SimpleFlips ==
  /\ pc["bridge"] = "s_flip"
  /\ mem' = [mem EXCEPT !.simple = ~@]
  /\ pc' = [pc EXCEPT !["bridge"] = "m_assess"]
  /\ UNCHANGED delivered
  /\ ThreadsUnchanged

\* manager.py 80: assess_children_nodes() != self.satisfied
ManagerAssesses(t) ==
  /\ pc[t] = "m_assess"
  /\ pc' = [pc EXCEPT ![t] = IF mem.simple # mem.manager THEN "m_flip"
                             ELSE Outside(t)]
  /\ UNCHANGED <<mem, delivered>>
  /\ ThreadsUnchanged

\* manager.py 81: self.satisfied = not self.satisfied
ManagerFlips(t) ==
  /\ pc[t] = "m_flip"
  /\ mem' = [mem EXCEPT !.manager = ~@]
  /\ pc' = [pc EXCEPT ![t] = "m_check"]
  /\ UNCHANGED delivered
  /\ ThreadsUnchanged

\* manager.py 83: if self.satisfied
ManagerChecks(t) ==
  /\ pc[t] = "m_check"
  /\ pc' = [pc EXCEPT ![t] = IF mem.manager THEN "m_stop" ELSE Outside(t)]
  /\ UNCHANGED <<mem, delivered>>
  /\ ThreadsUnchanged

\* manager.py 84-85 (stop_timers, stop_simulation) and manager.py 62
\* (stop_simulation): the leaf removes its handler, finished is set
ManagerStops(t) ==
  /\ pc[t] \in {"m_stop", "m_stop_timeout"}
  /\ mem' = [mem EXCEPT !.cancelled = IF pc[t] = "m_stop" THEN TRUE ELSE @,
                        !.subscribed = FALSE,
                        !.removes = @ + 1,
                        !.finished = TRUE]
  /\ pc' = [pc EXCEPT ![t] = Outside(t)]
  /\ UNCHANGED delivered
  /\ ThreadsUnchanged

ThreadsNext ==
  \/ \E t \in Threads : TimerFires(t)
  \/ MessageArrives
  \/ SimpleFlips
  \/ \E t \in Threads : ManagerAssesses(t)
  \/ \E t \in Threads : ManagerFlips(t)
  \/ \E t \in Threads : ManagerChecks(t)
  \/ \E t \in Threads : ManagerStops(t)

ThreadsSpec == ThreadsInit /\ [][ThreadsNext]_vars

\* C30: in no reachable state is one node handling two events at once (the
\* Manager's min_timeout callback on its timer thread never overlaps a
\* StatusChange that arrives on the bridge thread).
C30_HandlersMutuallyExclusive ==
  \A node \in {"Manager", "Simple"} :
    \A t1, t2 \in Threads :
      (Handling(t1, node) /\ Handling(t2, node)) => t1 = t2

\* what the overlap does: both threads passed the test of manager.py 80 and
\* both flipped the flag, so the Manager ends unsatisfied with its only
\* child satisfied and nothing left to run
C30_LostUpdate ==
  ~(/\ \A t \in Threads : pc[t] \in {"idle", "done", "timer"}
    /\ pc["start_timer"] = "done"
    /\ pc["bridge"] = "idle"
    /\ delivered = 1
    /\ mem.simple /\ ~mem.manager /\ ~mem.finished)

(***************************************************************************)
(* The I/O threads of the bridge client in message_handler of one Simple   *)
(* leaf.  A thread moves one statement at a time; the handlers of the      *)
(* father do not write the leaf's flag.                                    *)
(***************************************************************************)
LeafInit ==
  /\ InitProgram /\ tree = TreeEmpty
  /\ CallbackIdle /\ ParserIdle /\ DockerIdle
  /\ pc = [t \in Threads |-> "idle"]
  /\ mem = [manager |-> FALSE, simple |-> FALSE, finished |-> FALSE,
            cancelled |-> FALSE, subscribed |-> FALSE, removes |-> 0]
  /\ delivered = 0
  /\ LeafIdle

LeafUnchanged ==
  UNCHANGED <<ProgramVars, CallbackVars, ParserVars, DockerVars, pc, mem, delivered>>

\* simple.py 86: message_handler is called with a message m; P(m) is compared
\* with the flag
HandlerTests(t) ==
  /\ io[t].pc = "idle"
  /\ leaf.handled + Cardinality({u \in IOThreads : io[u].pc # "idle"}) < MaxHandled
  /\ \E pv \in BOOLEAN :
       IF pv # leaf.satisfied
       THEN /\ io' = [io EXCEPT ![t] = [pc |-> "flip", pv |-> pv]]
            /\ UNCHANGED leaf
       ELSE /\ io' = io
            /\ leaf' = [leaf EXCEPT !.handled = @ + 1, !.last = pv]
  /\ LeafUnchanged

\* simple.py 87: self.satisfied = not self.satisfied
HandlerFlips(t) ==
  /\ io[t].pc = "flip"
  /\ leaf' = [leaf EXCEPT !.satisfied = ~@, !.flips = @ + 1,
                          !.unchanged = @ \/ (io[t].pv = leaf.satisfied)]
  /\ io' = [io EXCEPT ![t].pc = "send"]
  /\ LeafUnchanged

\* simple.py 90-91: StatusChange is built and sent upstream; the call returns
HandlerSends(t) ==
  /\ io[t].pc = "send"
  /\ leaf' = [leaf EXCEPT !.sent = @ + 1, !.handled = @ + 1, !.last = io[t].pv]
  /\ io' = [io EXCEPT ![t] = NoHandler]
  /\ LeafUnchanged

LeafNext ==
  \/ \E t \in IOThreads : HandlerTests(t)
  \/ \E t \in IOThreads : HandlerFlips(t)
  \/ \E t \in IOThreads : HandlerSends(t)

LeafSpec == LeafInit /\ [][LeafNext]_vars

\* C31: for any interleaving of message deliveries at a leaf, once a call of
\* message_handler has returned and no other one is in flight, the leaf's
\* flag equals P(m) of the last message handled, the leaf has sent one
\* StatusChange per change of its flag, and none for a message whose P(m)
\* equalled the flag.
C31_LeafFollowsLastMessage ==
  (leaf.handled > 0 /\ \A t \in IOThreads : io[t].pc = "idle") =>
     /\ leaf.satisfied = leaf.last
     /\ leaf.sent = leaf.flips
     /\ ~leaf.unchanged

\* the step ran Manager.stop_simulation: the max_timeout fire, a
\* StopSimulation received, or the Manager's flag turning true
StopSimulationRan ==
  \/ lastOp' = "stop_timeout"
  \/ stopRecv'
  \/ ~satisfied[MANAGER] /\ satisfied'[MANAGER]

\* C32: Manager.stop_simulation sets finished only after the
\* RosbridgeDisconnect broadcast to the children has returned: when the
\* broadcast raises in a descendant (a leaf that was never connected),
\* finished is not set by that call; when finished is set, every leaf that is
\* a child of the Manager has been told to remove its handler.
C32_FinishedOnlyAfterBroadcast ==
  [][ (StopSimulationRan /\ ~finished) =>
        /\ raised' => ~finished'
        /\ ~raised' => finished'
        /\ finished' =>
             \A i \in 1..Len(tree.children[MANAGER]) :
               Kind(Child(MANAGER, i)) = "Simple" =>
                 rems'[Child(MANAGER, i)] = rems[Child(MANAGER, i)] + 1 ]_vars

\* the Manager judged its never-connected leaf satisfied, stop_simulation
\* ran, the leaf raised and finished stayed false
C32_Witness ==
  /\ tree = TreeSimple
  /\ connects = 0
  /\ lastOp = "message"
  /\ raised
  /\ satisfied[MANAGER]
  /\ start_timer.cancelled
  /\ ~finished

\* the nodes other than the Manager whose flag the step changed
FlagsChanged == {n \in Nodes \ {MANAGER} : satisfied'[n] # satisfied[n]}

\* C33: a node sends StatusChange upstream only when its own satisfied flag
\* has changed in that step: a step builds no more StatusChange commands than
\* it changes flags, and a Response node whose flag a RosbridgeDisconnect or
\* a timer fire leaves unchanged sends nothing.
C33_StatusChangeOnlyOnChange ==
  [][ nStatus' <= Cardinality(FlagsChanged) ]_vars

\* C34: once Manager.stop_simulation has run (finished = true) no timer
\* callback executes any more: neither of the Manager's timers and no
\* pattern node's timer fires in a state where finished is true.
C34_NoTimerAfterFinished ==
  [][ finished =>
        lastOp' \notin {"start_timeout", "stop_timeout", "node_timeout"} ]_vars

\* C35: a freshly constructed Response node has satisfied = true.
C35_ResponseStartsSatisfied ==
  lastOp = "init" => \A n \in Nodes : Kind(n) = "Response" => satisfied[n]

\* C36: a Disjoint node computes the OR of its children: after a step in
\* which a child leaf's flag changed (the leaf sent StatusChange), the node's
\* flag equals (some child is satisfied), and one StatusChange was built per
\* node whose flag changed: the Disjoint node sent one exactly when its own
\* flag changed.
C36_DisjointIsOr ==
  [][ (/\ lastLeaf' # 0
       /\ Kind(tree.father[lastLeaf']) = "Disjoint"
       /\ satisfied'[lastLeaf'] # satisfied[lastLeaf']) =>
        LET d == tree.father[lastLeaf'] IN
          /\ satisfied'[d] =
               (\E i \in 1..Len(tree.children[d]) : satisfied'[Child(d, i)])
          /\ nStatus' = Cardinality(FlagsChanged) ]_vars

\* the first child of the Disjoint node became satisfied: the leaf, the
\* Disjoint node and its father each sent StatusChange
C36_Witness ==
  /\ tree = TreeDisjoint
  /\ lastOp = "message"
  /\ lastLeaf = 4
  /\ satisfied[4] /\ ~satisfied[5]
  /\ satisfied[3]
  /\ nStatus = 3

\* the second child became satisfied as well: only the leaf sent StatusChange
C36_WitnessUnchanged ==
  /\ tree = TreeDisjoint
  /\ lastOp = "message"
  /\ lastLeaf = 5
  /\ satisfied[4] /\ satisfied[5]
  /\ satisfied[3]
  /\ nStatus = 1

\* C37: when the timer of a Prevention node fires and the point of no return
\* has not been reached, the node's flag becomes (anterior.satisfied and not
\* posterior.satisfied) and a StopSimulation goes upstream exactly when that
\* value is false.
C37_PreventionTimeout ==
  [][\A n \in PreventionNodes :
       (~timer[n].fired /\ timer'[n].fired /\ ~noReturn[n]) =>
         /\ satisfied'[n] = (satisfied[Anterior(n)] /\ ~satisfied[Posterior(n)])
         /\ ~satisfied'[n] <=> (stopEmit' /\ ~raised')]_vars

\* C38: whenever no handler of the Manager is running, Manager.satisfied
\* implies Manager.finished.
C38_SatisfiedImpliesFinished == satisfied[MANAGER] => finished

\* C39: Manager.finished is false from construction until the first
\* stop_simulation and, once true, no step sets it back to false.
C39_FinishedMonotone ==
  [][ /\ lastOp = "init" => ~finished
      /\ finished => finished'
      /\ (~finished /\ finished') =>
           (lastOp' = "stop_timeout" \/ stopRecv'
              \/ (~satisfied[MANAGER] /\ satisfied'[MANAGER])) ]_vars

\* finished was set by the max_timeout fire and a later message, handled by
\* a leaf that is still subscribed, left it true
C39_Witness ==
  /\ finished
  /\ lastOp = "message"
  /\ lastLeaf # 0
  /\ stop_timer.fired
  /\ subs[lastLeaf] > 0

\* C40: the synchronous propagation that one external event starts always
\* terminates: the chain of handle_upstream_command /
\* handle_downstream_command calls never reaches the recursion limit, and it
\* nests no deeper than twice the number of nodes; this includes the
\* re-entrant path Response -> Manager.stop_simulation -> Response.
C40_PropagationTerminates ==
  /\ ~overflow
  /\ deepest <= 2 * Len(tree.kind)

\* the re-entrant path: the disconnect made the Response node send
\* StatusChange, the Manager stopped the simulation, its disconnect made the
\* Response node send StatusChange again, and the chain ended
C40_Witness ==
  /\ tree = TreeResponse
  /\ lastOp = "disconnect"
  /\ nStatus = 2
  /\ satisfied[MANAGER] /\ satisfied[2]
  /\ deepest = 4
  /\ ~overflow

====
